---- MODULE Spec2Model ----
(***************************************************************************)
(* Waiting-list manager: the Streamlit session (waiting_list_app.py) and   *)
(* the remote table client (WaitingListDataLoader.SupabaseDBClient).       *)
(*                                                                         *)
(* Encoding of values.  A full name is a sequence of characters, so that   *)
(* str.strip() can be computed; every other field value is a string.       *)
(* Python None is the string "None", True/False are "True"/"False".        *)
(* The Hebrew dictionary keys of the session's records are transliterated  *)
(* (shem_male = full name, taarich = date, snif = branch, ...); the        *)
(* remote tables use the English column names of the source.               *)
(***************************************************************************)
EXTENDS Integers, Sequences, FiniteSets, TLC

\* ---------------------------------------------------------------- bounds
MaxRows == 2        \* rows the model lets the two remote tables hold together
MaxDay == 2         \* days of the model's calendar; the session runs on the last one

\* ---------------------------------------------------------- configuration
FACILITIES == <<"gush_dan">>

FACILITY_BRANCHES == [gush_dan |-> <<"all", "tel_aviv", "ramat_gan">>]

SEE_ALL == "all"

Range(s) == {s[i] : i \in 1..Len(s)}

IsRealBranch(b) == b # SEE_ALL

\* the branch list with the pseudo-branch left in
branches_with_all(facility) == FACILITY_BRANCHES[facility]

\* [b for b in FACILITY_BRANCHES[facility] if b != "הכל"]
branches_no_all(facility) == SelectSeq(FACILITY_BRANCHES[facility], IsRealBranch)

Dates == 1..MaxDay

\* ------------------------------------------------------------ python bits
\* dict.get(key, default)
Get(d, k, default) == IF k \in DOMAIN d THEN d[k] ELSE default

WHITESPACE == {" "}

RECURSIVE lstrip(_)
lstrip(s) == IF s # <<>> /\ Head(s) \in WHITESPACE THEN lstrip(Tail(s)) ELSE s

RECURSIVE rstrip(_)
rstrip(s) ==
  IF s # <<>> /\ s[Len(s)] \in WHITESPACE THEN rstrip(SubSeq(s, 1, Len(s) - 1)) ELSE s

\* str.strip()
strip(s) == rstrip(lstrip(s))

\* date.strftime("%Y-%m-%d")
strftime(d) == "2025-09-0" \o ToString(d)

\* date_str = d.strftime("%Y-%m-%d") if hasattr(d, "strftime") else str(d)
date_str_of(d) == IF d \in Dates THEN strftime(d) ELSE "None"

\* {field_map[k]: v for k, v in person_dict.items() if k in field_map}
\* (the maps are one-to-one: KeyOf(field_map) gives the key of each value)
KeyOf(field_map) ==
  [c \in {field_map[k] : k \in DOMAIN field_map} |->
     CHOOSE k \in DOMAIN field_map : field_map[k] = c]

MapKeys(field_map, key_of, person_dict) ==
  [c \in {field_map[k] : k \in DOMAIN person_dict \cap DOMAIN field_map} |->
     person_dict[key_of[c]]]

\* ------------------------------------------------------------- field maps
read_waiting_field_map ==
  [name |-> "shem_male", date_added |-> "taarich", address |-> "ktovet",
   referrer |-> "gorem_mafne", committee_approval |-> "ishur_vaada",
   psychiatric_report |-> "doch_psychiatri",
   psychosocial_report |-> "doch_psychosocial",
   medical_report |-> "doch_refui", id_photo |-> "tzilum_tz",
   comments |-> "hearot", urgent_case |-> "mikre_dachuf",
   branch |-> "snif", facility |-> "merchav"]

add_person_field_map ==
  [shem_male |-> "name", taarich |-> "date_added", ktovet |-> "address",
   gorem_mafne |-> "referrer", ishur_vaada |-> "committee_approval",
   doch_psychiatri |-> "psychiatric_report",
   doch_psychosocial |-> "psychosocial_report",
   doch_refui |-> "medical_report", tzilum_tz |-> "id_photo",
   hearot |-> "comments", mikre_dachuf |-> "urgent_case",
   snif |-> "branch", merchav |-> "facility"]

read_accepted_field_map ==
  [name |-> "shem_male", date_added |-> "taarich_hamtana",
   date_accepted |-> "taarich_kabala", address |-> "ktovet",
   referrer |-> "gorem_mafne", committee_approval |-> "ishur_vaada",
   psychiatric_report |-> "doch_psychiatri",
   psychosocial_report |-> "doch_psychosocial",
   medical_report |-> "doch_refui", id_photo |-> "tzilum_tz",
   comments |-> "hearot", urgent_case |-> "mikre_dachuf",
   original_branch |-> "snif_mekori", branch |-> "snif",
   facility |-> "merchav"]

\* add_accepted_field_map with the address and the referrer columns crossed
add_accepted_field_map_crossed ==
  [shem_male |-> "name", taarich_hamtana |-> "date_added",
   taarich_kabala |-> "date_accepted", ktovet |-> "referrer",
   gorem_mafne |-> "address", ishur_vaada |-> "committee_approval",
   doch_psychiatri |-> "psychiatric_report",
   doch_psychosocial |-> "psychosocial_report",
   doch_refui |-> "medical_report", tzilum_tz |-> "id_photo",
   hearot |-> "comments", snif_mekori |-> "original_branch",
   snif |-> "branch", merchav |-> "facility"]

add_accepted_field_map ==
  [shem_male |-> "name", taarich_hamtana |-> "date_added",
   taarich_kabala |-> "date_accepted", ktovet |-> "address",
   gorem_mafne |-> "referrer", ishur_vaada |-> "committee_approval",
   doch_psychiatri |-> "psychiatric_report",
   doch_psychosocial |-> "psychosocial_report",
   doch_refui |-> "medical_report", tzilum_tz |-> "id_photo",
   hearot |-> "comments", snif_mekori |-> "original_branch",
   snif |-> "branch", merchav |-> "facility"]

edit_person_field_map ==
  [shem_male |-> "name", taarich |-> "date_added", ktovet |-> "address",
   gorem_mafne |-> "referrer", ishur_vaada |-> "committee_approval",
   doch_psychiatri |-> "psychiatric_report",
   doch_psychosocial |-> "psychosocial_report",
   doch_refui |-> "medical_report", tzilum_tz |-> "id_photo",
   hearot |-> "comments", mikre_dachuf |-> "urgent_case",
   snif |-> "branch", merchav |-> "facility"]

read_waiting_key_of == KeyOf(read_waiting_field_map)
add_person_key_of == KeyOf(add_person_field_map)
read_accepted_key_of == KeyOf(read_accepted_field_map)
add_accepted_key_of == KeyOf(add_accepted_field_map)
edit_person_key_of == KeyOf(edit_person_field_map)

\* ------------------------------------------------------------------ state
VARIABLES
  WaitingList,     \* remote table WaitingList: sequence of rows
  AcceptedList,    \* remote table AcceptedList: sequence of rows
  waiting_lists,   \* st.session_state["waiting_lists"]
  accepted_lists,  \* st.session_state["accepted_lists"]
  today,           \* datetime.today(), as a day number
  pc,              \* position of the running button handler
  req,             \* inputs of the handler that runs or ran last
  person_to_move,  \* the record the running move handler located
  moving,          \* the record the running move handler sends to the other table
  calls,           \* remote calls the handler issued so far: <<call, response.ok>>
  ui,              \* message the handler showed last
  result           \* what the last call of edit_person returned to its caller

vars == <<WaitingList, AcceptedList, waiting_lists, accepted_lists,
          today, pc, req, person_to_move, moving, calls, ui, result>>

NoReq == [op |-> "none"]
NoPerson == [shem_male |-> <<>>]

\* ----------------------------------------------------------- remote tables
WaitingColumns == DOMAIN read_waiting_field_map
AcceptedColumns == DOMAIN read_accepted_field_map

\* A column an insert leaves out is NULL in the new row (None when read back).
InsertRow(columns, json, default) ==
  [c \in columns |-> IF c \in DOMAIN json THEN json[c] ELSE default]

\* DELETE ...?name=eq.{person_name}: every row with that name goes.
DeleteByName(table, person_name) ==
  SelectSeq(table, LAMBDA row : row.name # person_name)

NamesOf(table) == {table[i].name : i \in 1..Len(table)}

\* ------------------------------------------------------- SupabaseDBClient
EmptyStore(facility, branches) ==
  [f \in {facility} |-> [b \in Range(branches) |-> <<>>]]

\* person[v] = row.get(k, "") for k, v in field_map.items(); person.pop("מרחב")
PersonOfRow(key_of, row) ==
  [h \in DOMAIN key_of \ {"merchav"} |-> Get(row, key_of[h], "")]

RECURSIVE GroupRows(_, _, _, _, _)
GroupRows(store, rows, key_of, facility, branches) ==
  IF rows = <<>> THEN store
  ELSE LET row == Head(rows)
           branch == row.branch
           next == IF branch \in Range(branches)
                   THEN [store EXCEPT ![facility][branch] =
                           Append(@, PersonOfRow(key_of, row))]
                   ELSE store
       IN GroupRows(next, Tail(rows), key_of, facility, branches)

\* read_waiting_list: the grouped rows, or the empty store when not response.ok
read_waiting_list(table, ok, facility, branches) ==
  IF ok THEN GroupRows(EmptyStore(facility, branches), table,
                       read_waiting_key_of, facility, branches)
  ELSE EmptyStore(facility, branches)

\* read_accepted_list: the grouped rows, or None (no store) when not response.ok
NoneStore == <<>>

read_accepted_list(table, ok, facility, branches) ==
  IF ok THEN GroupRows(EmptyStore(facility, branches), table,
                       read_accepted_key_of, facility, branches)
  ELSE NoneStore

\* add_person: POST of the mapped record; the table changes only if response.ok
add_person(table, person_dict, ok) ==
  IF ok
  THEN Append(table, InsertRow(WaitingColumns,
                               MapKeys(add_person_field_map, add_person_key_of, person_dict),
                               "None"))
  ELSE table

\* add_person_to_accepted_list
add_person_to_accepted_list(table, person_dict, ok) ==
  IF ok
  THEN Append(table, InsertRow(AcceptedColumns,
                               MapKeys(add_accepted_field_map, add_accepted_key_of,
                                       person_dict), "None"))
  ELSE table

\* remove_person_from_waiting_list
remove_person_from_waiting_list(table, person_name, ok) ==
  IF ok THEN DeleteByName(table, person_name) ELSE table

\* remove_person_from_accepted_list
remove_person_from_accepted_list(table, person_name, ok) ==
  IF ok THEN DeleteByName(table, person_name) ELSE table

\* PATCH ...?name=eq.{person_name}: every row with that name takes the given columns
PatchByName(table, person_name, json) ==
  [i \in 1..Len(table) |->
     IF table[i].name = person_name
     THEN [c \in DOMAIN table[i] |-> IF c \in DOMAIN json THEN json[c] ELSE table[i][c]]
     ELSE table[i]]

\* edit_person: PATCH of the mapped fields; the table changes only if response.ok
edit_person(table, person_name, updated_fields, ok) ==
  IF ok
  THEN PatchByName(table, person_name,
                   MapKeys(edit_person_field_map, edit_person_key_of, updated_fields))
  ELSE table

\* what edit_person hands back: it falls off its end when response.ok, and
\* returns None when not
edit_person_returns(ok) == IF ok THEN "None" ELSE "None"

\* ------------------------------------------------------ waiting_list_app
get_waitlist(data_store, facility, branch) == data_store[facility][branch]

\* the union built back to front
RECURSIVE ExtendAllBackwards(_, _, _)
ExtendAllBackwards(data_store, facility, branches) ==
  IF branches = <<>> THEN <<>>
  ELSE ExtendAllBackwards(data_store, facility, Tail(branches))
         \o get_waitlist(data_store, facility, Head(branches))

RECURSIVE ExtendAll(_, _, _)
ExtendAll(data_store, facility, branches) ==
  IF branches = <<>> THEN <<>>
  ELSE get_waitlist(data_store, facility, Head(branches))
         \o ExtendAll(data_store, facility, Tail(branches))

\* the list a page shows for the selected branch ("see all": every real branch)
view_list(data_store, facility, branch) ==
  IF branch = SEE_ALL
  THEN ExtendAll(data_store, facility, branches_no_all(facility))
  ELSE get_waitlist(data_store, facility, branch)

person_names(list) == {list[i].shem_male : i \in 1..Len(list)}

\* index of the first record of the list with that name, 0 if there is none
FirstIndex(list, name) ==
  IF \E i \in 1..Len(list) : list[i].shem_male = name
  THEN CHOOSE i \in 1..Len(list) :
         /\ list[i].shem_male = name
         /\ \A j \in 1..(i - 1) : list[j].shem_male # name
  ELSE 0

RemoveAt(list, i) == SubSeq(list, 1, i - 1) \o SubSeq(list, i + 1, Len(list))

\* the search of the move handlers: [branch, index] of the record found, index 0 if none
RECURSIVE LocateInBranches(_, _, _, _)
LocateInBranches(data_store, facility, branches, name) ==
  IF branches = <<>> THEN [branch |-> "", index |-> 0]
  ELSE LET i == FirstIndex(data_store[facility][Head(branches)], name)
       IN IF i > 0 THEN [branch |-> Head(branches), index |-> i]
          ELSE LocateInBranches(data_store, facility, Tail(branches), name)

Locate(data_store, facility, branch, name) ==
  IF branch = SEE_ALL
  THEN LocateInBranches(data_store, facility, branches_no_all(facility), name)
  ELSE [branch |-> branch,
        index |-> FirstIndex(get_waitlist(data_store, facility, branch), name)]

\* [True, "כן", "true", "True", 1]
UrgentTruthy == {"True", "yes", "true"}

\* accepted_person with the target branch and the original branch swapped
accepted_person_swapped(p, original_branch, target_branch, facility, day) ==
  [shem_male |-> Get(p, "shem_male", <<>>),
   taarich_hamtana |-> Get(p, "taarich", ""),
   taarich_kabala |-> strftime(day),
   ktovet |-> Get(p, "ktovet", ""),
   gorem_mafne |-> Get(p, "gorem_mafne", ""),
   snif_mekori |-> target_branch,
   ishur_vaada |-> Get(p, "ishur_vaada", ""),
   doch_psychiatri |-> Get(p, "doch_psychiatri", ""),
   doch_psychosocial |-> Get(p, "doch_psychosocial", ""),
   doch_refui |-> Get(p, "doch_refui", ""),
   tzilum_tz |-> Get(p, "tzilum_tz", ""),
   hearot |-> Get(p, "hearot", ""),
   snif |-> original_branch,
   merchav |-> facility,
   mikre_dachuf |-> IF Get(p, "mikre_dachuf", "None") \in UrgentTruthy
                    THEN "True" ELSE "False"]

\* accepted_person of the move_to_accepted handler
accepted_person(p, original_branch, target_branch, facility, day) ==
  [shem_male |-> Get(p, "shem_male", <<>>),
   taarich_hamtana |-> Get(p, "taarich", ""),
   taarich_kabala |-> strftime(day),
   ktovet |-> Get(p, "ktovet", ""),
   gorem_mafne |-> Get(p, "gorem_mafne", ""),
   snif_mekori |-> original_branch,
   ishur_vaada |-> Get(p, "ishur_vaada", ""),
   doch_psychiatri |-> Get(p, "doch_psychiatri", ""),
   doch_psychosocial |-> Get(p, "doch_psychosocial", ""),
   doch_refui |-> Get(p, "doch_refui", ""),
   tzilum_tz |-> Get(p, "tzilum_tz", ""),
   hearot |-> Get(p, "hearot", ""),
   snif |-> target_branch,
   merchav |-> facility,
   mikre_dachuf |-> IF Get(p, "mikre_dachuf", "None") \in UrgentTruthy
                    THEN "True" ELSE "False"]

\* waiting_person of the move_to_waiting handler; the urgent flag is read from the
\* record under construction, which has no such key yet
waiting_person(p, target_branch, facility) ==
  LET w == [shem_male |-> Get(p, "shem_male", <<>>),
            taarich |-> Get(p, "taarich_hamtana", Get(p, "taarich", "")),
            ktovet |-> Get(p, "ktovet", ""),
            gorem_mafne |-> Get(p, "gorem_mafne", ""),
            ishur_vaada |-> Get(p, "ishur_vaada", ""),
            doch_psychiatri |-> Get(p, "doch_psychiatri", ""),
            doch_psychosocial |-> Get(p, "doch_psychosocial", ""),
            doch_refui |-> Get(p, "doch_refui", ""),
            tzilum_tz |-> Get(p, "tzilum_tz", ""),
            hearot |-> Get(p, "hearot", ""),
            snif |-> target_branch,
            merchav |-> facility]
  IN [k \in DOMAIN w \cup {"mikre_dachuf"} |->
        IF k = "mikre_dachuf"
        THEN (IF Get(w, "mikre_dachuf", "None") \in UrgentTruthy THEN "True" ELSE "False")
        ELSE w[k]]

\* two fillings of the add page's address, referrer, checklist, comments and urgent
\* widgets: everything on file and urgent; a mixed checklist and not urgent
FormComplete ==
  [ktovet |-> "addr1", gorem_mafne |-> "ref1", ishur_vaada |-> "yes",
   doch_psychiatri |-> "yes", doch_psychosocial |-> "yes", doch_refui |-> "yes",
   tzilum_tz |-> "yes", hearot |-> "note1", mikre_dachuf |-> "True"]

FormMixed ==
  [ktovet |-> "addr2", gorem_mafne |-> "", ishur_vaada |-> "yes",
   doch_psychiatri |-> "no", doch_psychosocial |-> "no", doch_refui |-> "no",
   tzilum_tz |-> "no", hearot |-> "", mikre_dachuf |-> "False"]

\* the submissions of the add page the model tries: name typed, date picked (0: none),
\* branch selected ("None": none), and the rest of the form
AddInputs ==
  { [name |-> <<>>, date |-> 1, branch_q |-> "tel_aviv", form |-> FormMixed],
    [name |-> <<" ">>, date |-> 1, branch_q |-> "tel_aviv", form |-> FormComplete],
    [name |-> <<"a">>, date |-> 1, branch_q |-> "None", form |-> FormComplete],
    [name |-> <<"a">>, date |-> 0, branch_q |-> "tel_aviv", form |-> FormComplete] }
  \cup
  { [name |-> n, date |-> 1, branch_q |-> b,
     form |-> IF n = <<"a">> THEN FormComplete ELSE FormMixed] :
      n \in {<<"a">>, <<" ", "a", " ">>},
      b \in Range(branches_no_all(FACILITIES[1])) }

\* person of the add_form handler
form_person(name, date, form, branch_q, facility_q) ==
  [k \in DOMAIN form \cup {"shem_male", "taarich", "snif", "merchav"} |->
     CASE k = "shem_male" -> name
       [] k = "taarich" -> date_str_of(date)
       [] k = "snif" -> branch_q
       [] k = "merchav" -> facility_q
       [] OTHER -> form[k]]

\* add_to_waitlist that files every record under the first real branch
add_to_waitlist_first_branch(data_store, name, is_dict, facility, branch) ==
  LET first == branches_no_all(facility)[1]
      person == IF is_dict THEN name ELSE [shem_male |-> strip(name)]
  IN IF strip(Get(person, "shem_male", <<>>)) = <<>>
     THEN [added |-> FALSE, data_store |-> data_store]
     ELSE [added |-> TRUE,
           data_store |-> [data_store EXCEPT ![facility][first] = Append(@, person)]]

\* add_to_waitlist: [added, data_store]; a record (dict) or a plain name
add_to_waitlist(data_store, name, is_dict, facility, branch) ==
  IF is_dict
  THEN IF strip(Get(name, "shem_male", <<>>)) = <<>>
       THEN [added |-> FALSE, data_store |-> data_store]
       ELSE [added |-> TRUE,
             data_store |-> [data_store EXCEPT ![facility][branch] = Append(@, name)]]
  ELSE IF strip(name) = <<>>
       THEN [added |-> FALSE, data_store |-> data_store]
       ELSE [added |-> TRUE,
             data_store |-> [data_store EXCEPT ![facility][branch] =
                               Append(@, [shem_male |-> strip(name)])]]

\* what the edit page's widgets can be set to: the branch switcher and the rest of
\* the form (name and date are left as they are shown)
EditInputs ==
  {[name_typed |-> FALSE, new_name |-> <<>>, new_branch |-> b, form |-> f] :
     b \in Range(branches_no_all(FACILITIES[1])), f \in {FormComplete, FormMixed}}

\* fillings of the edit page whose name box was retyped: emptied, or another name
RenameInputs ==
  {[name_typed |-> TRUE, new_name |-> n, new_branch |-> b, form |-> FormMixed] :
     n \in {<<>>, <<"b">>}, b \in Range(branches_no_all(FACILITIES[1]))}

\* selected_person after the save handler's assignments
edited_person(selected_person, in, facility) ==
  [k \in DOMAIN selected_person \cup DOMAIN in.form \cup {"snif", "merchav"} |->
     CASE k = "shem_male" ->
            IF in.name_typed THEN in.new_name ELSE selected_person.shem_male
       [] k = "snif" -> in.new_branch
       [] k = "merchav" -> facility
       [] k \in DOMAIN in.form -> in.form[k]
       [] OTHER -> selected_person[k]]

\* hasattr(result, 'status_code') and result.status_code >= 400: None has no
\* status_code
has_error_status(returned) == returned # "None" /\ returned \notin {"200", "204"}

CHECKLIST ==
  {"ishur_vaada", "doch_psychiatri", "doch_psychosocial", "doch_refui", "tzilum_tz"}

\* the three totals of the statistics page over all_people
total_people(all_people) == Len(all_people)

\* the count with any() in place of all()
total_yes_any(all_people) ==
  Cardinality({i \in 1..Len(all_people) :
                 \E f \in CHECKLIST : Get(all_people[i], f, "None") = "yes"})

total_yes_all(all_people) ==
  Cardinality({i \in 1..Len(all_people) :
                 \A f \in CHECKLIST : Get(all_people[i], f, "None") = "yes"})

total_urgent_cases(all_people) ==
  Cardinality({i \in 1..Len(all_people) :
                 Get(all_people[i], "mikre_dachuf", "None") \in {"True", "yes"}})

\* pd.to_datetime(v, errors="coerce"): the day the text names, NaT if it names none
NaT == 0

to_datetime(v) ==
  IF \E d \in Dates : strftime(d) = v
  THEN CHOOSE d \in Dates : strftime(d) = v
  ELSE NaT

\* p.get("תאריך") is truthy: the key is there and its value is not None or ""
has_date(p) == Get(p, "taarich", "") \notin {"", "None"}

RECURSIVE SumSeq(_)
SumSeq(q) == IF q = <<>> THEN 0 ELSE Head(q) + SumSeq(Tail(q))

\* a quotient of two integers, kept as <<numerator, denominator>>
ZeroWait == <<0, 1>>

\* avg_wait of one branch: computed only when the first record has the date key,
\* over the dates that are there and parse; 0 when there is nothing to average
avg_wait_of(filtered) ==
  IF filtered # <<>> /\ "taarich" \in DOMAIN filtered[1]
  THEN LET with_date == SelectSeq(filtered, has_date)
           parsed == [i \in 1..Len(with_date) |-> to_datetime(with_date[i].taarich)]
           dates == SelectSeq(parsed, LAMBDA d : d # NaT)
           days == [i \in 1..Len(dates) |-> today - dates[i]]
       IN IF dates # <<>> THEN <<SumSeq(days), Len(days)>> ELSE ZeroWait
  ELSE ZeroWait

\* [p["תאריך"] for p in filtered if p.get("תאריך")]
dates_of(filtered) ==
  LET with_date == SelectSeq(filtered, has_date)
  IN [i \in 1..Len(with_date) |-> with_date[i].taarich]

\* calculate_statistics: one entry per branch in scope that has people
RECURSIVE StatsOf(_, _, _)
StatsOf(data_store, fac, branches) ==
  IF branches = <<>> THEN <<>>
  ELSE LET br == Head(branches)
           people == get_waitlist(data_store, fac, br)
           rest == StatsOf(data_store, fac, Tail(branches))
       IN IF people = <<>> THEN rest
          ELSE << [facility |-> fac, branch |-> br, count |-> Len(people),
                   avg_wait |-> avg_wait_of(people),
                   dates |-> dates_of(people)] >> \o rest

calculate_statistics(data_store, facility, branch) ==
  StatsOf(data_store, facility,
          IF branch = "None" THEN branches_no_all(facility) ELSE <<branch>>)

\* all_dates of the statistics page: the date lists of the entries one after another
RECURSIVE AllDates(_)
AllDates(stats) ==
  IF stats = <<>> THEN <<>> ELSE Head(stats).dates \o AllDates(Tail(stats))

\* the day and month counts of the statistics page; pd.to_datetime is called here
\* without errors="coerce" and raises on a text that names no day (every day of
\* the model's calendar lies in the one month 2025-09)
date_aggregates(stats) ==
  LET all_dates == AllDates(stats)
      days == {to_datetime(all_dates[i]) : i \in 1..Len(all_dates)}
  IN IF all_dates # <<>> /\ NaT \in days
     THEN [raised |-> TRUE, day_counts |-> <<>>, month_counts |-> <<>>]
     ELSE [raised |-> FALSE,
           day_counts |->
             [d \in days |->
                Cardinality({i \in 1..Len(all_dates) : to_datetime(all_dates[i]) = d})],
           month_counts |->
             IF all_dates = <<>> THEN <<>> ELSE << <<"2025-09", Len(all_dates)>> >>]

\* a check that lets a submission without a date through
date_missing_never(date) == FALSE

\* elif תאריך == None: of the add_form handler (0: no date picked)
date_missing(date) == date = 0

\* the check without the strip
name_missing_nostrip(name) == name = <<>>

\* if not name.strip(): of the add_form handler
name_missing(name) == strip(name) = <<>>

\* ---------------------------------------------------------------- actions
TheFacility == FACILITIES[1]
TheBranches == FACILITY_BRANCHES[TheFacility]

Init ==
  /\ WaitingList = <<>>
  /\ AcceptedList = <<>>
  /\ waiting_lists = EmptyStore(TheFacility, TheBranches)
  /\ accepted_lists = EmptyStore(TheFacility, TheBranches)
  /\ today = MaxDay
  /\ pc = "idle"
  /\ req = NoReq
  /\ person_to_move = NoPerson
  /\ moving = NoPerson
  /\ calls = <<>>
  /\ ui = "none"
  /\ result = "None"

\* top of a script run: both lists are fetched again into the session
LoadWaiting(okW) == read_waiting_list(WaitingList, okW, TheFacility, TheBranches)
LoadAccepted(okA) == read_accepted_list(AcceptedList, okA, TheFacility, TheBranches)

RowCount == Len(WaitingList) + Len(AcceptedList)

\* a script run in which no button is pressed: both lists are fetched again
PageView ==
  /\ pc = "idle"
  /\ \E okW \in BOOLEAN, okA \in BOOLEAN :
       /\ waiting_lists' = LoadWaiting(okW)
       /\ accepted_lists' = LoadAccepted(okA)
  /\ UNCHANGED <<WaitingList, AcceptedList, today, result, pc, req,
                 person_to_move, moving, calls, ui>>

\* add_form submit handler
AddSubmit ==
  /\ pc = "idle"
  /\ \E in \in AddInputs, ok \in BOOLEAN :
       LET name == in.name
           date == in.date
           branch_q == in.branch_q
           person == form_person(name, date, in.form, branch_q, TheFacility)
       IN /\ waiting_lists' = LoadWaiting(TRUE)
          /\ accepted_lists' = LoadAccepted(TRUE)
          /\ req' = [op |-> "add", name |-> name, branch |-> branch_q,
                      date |-> date]
          /\ IF name_missing(name)
             THEN /\ ui' = "error_name"
                  /\ calls' = <<>>
                  /\ UNCHANGED WaitingList
             ELSE IF branch_q = "None"
             THEN /\ ui' = "error_branch"
                  /\ calls' = <<>>
                  /\ UNCHANGED WaitingList
             ELSE IF date_missing(date)
             THEN /\ ui' = "error_date"
                  /\ calls' = <<>>
                  /\ UNCHANGED WaitingList
             ELSE /\ RowCount < MaxRows
                  /\ WaitingList' = add_person(WaitingList, person, ok)
                  /\ calls' = << <<"add_person", ok>> >>
                  /\ ui' = "success"
  /\ person_to_move' = NoPerson
  /\ moving' = NoPerson
  /\ UNCHANGED <<AcceptedList, today, result, pc>>

\* remove button handler of the waiting-list page
RemoveClick ==
  /\ pc = "idle"
  /\ \E data_store \in {LoadWaiting(TRUE)}, branch \in Range(TheBranches),
        ok \in BOOLEAN :
       LET waiting_list == view_list(data_store, TheFacility, branch)
       IN \E selected_person \in person_names(waiting_list) :
            /\ FirstIndex(waiting_list, selected_person) > 0
            /\ req' = [op |-> "remove", name |-> selected_person, branch |-> branch]
            /\ WaitingList' = remove_person_from_waiting_list(WaitingList, selected_person, ok)
            /\ calls' = << <<"remove_person_from_waiting_list", ok>> >>
            /\ ui' = "success"
            \* st.rerun(): the script starts again and fetches both lists
            /\ waiting_lists' =
                 read_waiting_list(WaitingList', TRUE, TheFacility, TheBranches)
            /\ accepted_lists' = LoadAccepted(TRUE)
  /\ person_to_move' = NoPerson
  /\ moving' = NoPerson
  /\ UNCHANGED <<AcceptedList, today, result, pc>>

\* move_to_accepted button handler: locate the record and build accepted_person
PromoteClick ==
  /\ pc = "idle"
  /\ RowCount <= MaxRows
  /\ \E data_store \in {LoadWaiting(TRUE)}, branch \in Range(TheBranches),
        target_branch \in Range(branches_no_all(TheFacility)) :
       LET waiting_list == view_list(data_store, TheFacility, branch)
       IN \E selected_person \in person_names(waiting_list) :
            LET found == Locate(data_store, TheFacility, branch, selected_person)
                p == data_store[TheFacility][found.branch][found.index]
            IN /\ found.index > 0
               /\ waiting_lists' = data_store
               /\ accepted_lists' = LoadAccepted(TRUE)
               /\ req' = [op |-> "promote", name |-> selected_person,
                          branch |-> branch, target |-> target_branch,
                          found |-> found.branch, day |-> today]
               /\ person_to_move' = p
               /\ moving' = accepted_person(p, found.branch, target_branch,
                                            TheFacility, today)
  /\ pc' = "promote_add"
  /\ calls' = <<>>
  /\ ui' = "none"
  /\ UNCHANGED <<WaitingList, AcceptedList, today, result>>

\* DBloader.add_person_to_accepted_list(accepted_person)
PromoteAdd ==
  /\ pc = "promote_add"
  /\ \E ok \in BOOLEAN :
       /\ AcceptedList' = add_person_to_accepted_list(AcceptedList, moving, ok)
       /\ calls' = Append(calls, <<"add_person_to_accepted_list", ok>>)
  /\ pc' = "promote_remove"
  /\ UNCHANGED <<WaitingList, waiting_lists, accepted_lists,
                 today, result, req, person_to_move, moving, ui>>

\* DBloader.remove_person_from_waiting_list(selected_person); st.success; st.rerun
PromoteRemove ==
  /\ pc = "promote_remove"
  /\ \E ok \in BOOLEAN :
       /\ WaitingList' = remove_person_from_waiting_list(WaitingList, req.name, ok)
       /\ calls' = Append(calls, <<"remove_person_from_waiting_list", ok>>)
       /\ waiting_lists' =
            read_waiting_list(WaitingList', TRUE, TheFacility, TheBranches)
       /\ accepted_lists' = LoadAccepted(TRUE)
  /\ ui' = "success"
  /\ pc' = "idle"
  /\ person_to_move' = NoPerson
  /\ moving' = NoPerson
  /\ UNCHANGED <<AcceptedList, today, result, req>>

\* the accepted store with the located record popped
PopFound(data_store, facility, found) ==
  [data_store EXCEPT ![facility][found.branch] = RemoveAt(@, found.index)]

\* move_to_waiting button handler: pop the record from the accepted store and
\* build waiting_person
DemoteClick ==
  /\ pc = "idle"
  /\ RowCount <= MaxRows
  /\ \E data_store \in {LoadAccepted(TRUE)}, branch \in Range(TheBranches),
        target_branch \in Range(branches_no_all(TheFacility)) :
       LET waiting_list == view_list(data_store, TheFacility, branch)
       IN \E selected_person \in person_names(waiting_list) :
            LET found == Locate(data_store, TheFacility, branch, selected_person)
                p == data_store[TheFacility][found.branch][found.index]
            IN /\ found.index > 0
               /\ waiting_lists' = LoadWaiting(TRUE)
               /\ accepted_lists' = PopFound(data_store, TheFacility, found)
               /\ req' = [op |-> "demote", name |-> selected_person,
                          branch |-> branch, target |-> target_branch,
                          found |-> found.branch, day |-> today]
               /\ person_to_move' = p
               /\ moving' = waiting_person(p, target_branch, TheFacility)
  /\ pc' = "demote_add"
  /\ calls' = <<>>
  /\ ui' = "none"
  /\ UNCHANGED <<WaitingList, AcceptedList, today, result>>

\* DBloader.add_person(waiting_person)
DemoteAdd ==
  /\ pc = "demote_add"
  /\ \E ok \in BOOLEAN :
       /\ WaitingList' = add_person(WaitingList, moving, ok)
       /\ calls' = Append(calls, <<"add_person", ok>>)
  /\ pc' = "demote_remove"
  /\ UNCHANGED <<AcceptedList, waiting_lists, accepted_lists,
                 today, result, req, person_to_move, moving, ui>>

\* DBloader.remove_person_from_accepted_list(selected_person); st.success; st.rerun
DemoteRemove ==
  /\ pc = "demote_remove"
  /\ \E ok \in BOOLEAN :
       /\ AcceptedList' = remove_person_from_accepted_list(AcceptedList, req.name, ok)
       /\ calls' = Append(calls, <<"remove_person_from_accepted_list", ok>>)
       /\ waiting_lists' = LoadWaiting(TRUE)
       /\ accepted_lists' =
            read_accepted_list(AcceptedList', TRUE, TheFacility, TheBranches)
  /\ ui' = "success"
  /\ pc' = "idle"
  /\ person_to_move' = NoPerson
  /\ moving' = NoPerson
  /\ UNCHANGED <<WaitingList, today, result, req>>

\* save button handler of the edit page: the record is changed where it lies in the
\* session's store and sent whole to edit_person under its name before the change
save_changes(in) ==
  /\ \E data_store \in {LoadWaiting(TRUE)},
        branch \in Range(branches_no_all(TheFacility)),
        ok \in BOOLEAN :
       LET waiting_list == get_waitlist(data_store, TheFacility, branch)
       IN \E selected_person_name \in person_names(waiting_list) :
            LET i == FirstIndex(waiting_list, selected_person_name)
                Original_Name == waiting_list[i].shem_male
                selected_person == edited_person(waiting_list[i], in, TheFacility)
                returned == edit_person_returns(ok)
            IN /\ req' = [op |-> "edit", name |-> Original_Name, branch |-> branch,
                          new_branch |-> in.new_branch, form |-> in.form]
               /\ waiting_lists' =
                    [data_store EXCEPT ![TheFacility][branch][i] = selected_person]
               /\ WaitingList' =
                    edit_person(WaitingList, Original_Name, selected_person, ok)
               /\ calls' = << <<"edit_person", ok>> >>
               /\ result' = returned
               /\ ui' = IF has_error_status(returned) THEN "error_edit" ELSE "success"
  /\ accepted_lists' = LoadAccepted(TRUE)
  /\ person_to_move' = NoPerson
  /\ moving' = NoPerson
  /\ UNCHANGED <<AcceptedList, today, pc>>

\* the save with the name box left as it was
EditSave ==
  /\ pc = "idle"
  /\ \E in \in EditInputs : save_changes(in)

\* the save with the name box retyped
EditRename ==
  /\ pc = "idle"
  /\ \E in \in RenameInputs : save_changes(in)

\* the waiting-list page with no filter set: the list it shows for the branch
ListPage ==
  /\ pc = "idle"
  /\ \E data_store \in {LoadWaiting(TRUE)}, branch \in Range(TheBranches) :
       /\ waiting_lists' = data_store
       /\ req' = [op |-> "list", branch |-> branch,
                  listed |-> view_list(data_store, TheFacility, branch)]
  /\ accepted_lists' = LoadAccepted(TRUE)
  /\ calls' = <<>>
  /\ ui' = "none"
  /\ person_to_move' = NoPerson
  /\ moving' = NoPerson
  /\ UNCHANGED <<WaitingList, AcceptedList, today, result, pc>>

\* the statistics page for the waiting list
StatisticsPage ==
  /\ pc = "idle"
  /\ \E data_store \in {LoadWaiting(TRUE)}, branch \in Range(TheBranches) :
       LET all_people == view_list(data_store, TheFacility, branch)
       IN /\ waiting_lists' = data_store
          /\ req' = [op |-> "statistics", branch |-> branch,
                     stats |-> calculate_statistics(data_store, TheFacility,
                                 IF branch = SEE_ALL THEN "None" ELSE branch),
                     total_people |-> total_people(all_people),
                     total_yes_all |-> total_yes_all(all_people),
                     total_urgent_cases |-> total_urgent_cases(all_people)]
  /\ accepted_lists' = LoadAccepted(TRUE)
  /\ calls' = <<>>
  /\ ui' = "none"
  /\ person_to_move' = NoPerson
  /\ moving' = NoPerson
  /\ UNCHANGED <<WaitingList, AcceptedList, today, result, pc>>

Next ==
  \/ AddSubmit
  \/ RemoveClick
  \/ PromoteClick
  \/ PromoteAdd
  \/ PromoteRemove
  \/ DemoteClick
  \/ DemoteAdd
  \/ DemoteRemove

Spec == Init /\ [][Next]_vars

\* the session with script runs whose fetches fail
SpecView == Init /\ [][Next \/ PageView]_vars

\* the session on the add, waiting-list, edit and statistics pages
NextEdit ==
  \/ AddSubmit
  \/ RemoveClick
  \/ EditSave
  \/ ListPage
  \/ StatisticsPage

SpecEdit == Init /\ [][NextEdit]_vars

\* the session on the add and edit pages, the name box of the edit page in use
NextRename ==
  \/ AddSubmit
  \/ RemoveClick
  \/ EditSave
  \/ EditRename

SpecRename == Init /\ [][NextRename]_vars

\* the save handler in two steps, for two sessions on the edit page of the same
\* person. First step: from the load of the script run to the assignments to
\* selected_person; the PATCH is still to be sent
EditFill ==
  /\ pc = "idle"
  /\ \E data_store \in {LoadWaiting(TRUE)},
        branch \in Range(branches_no_all(TheFacility)),
        in \in EditInputs :
       LET waiting_list == get_waitlist(data_store, TheFacility, branch)
       IN \E selected_person_name \in person_names(waiting_list) :
            LET i == FirstIndex(waiting_list, selected_person_name)
                Original_Name == waiting_list[i].shem_male
                selected_person == edited_person(waiting_list[i], in, TheFacility)
            IN /\ req' = [op |-> "edit", name |-> Original_Name, branch |-> branch,
                          new_branch |-> in.new_branch, form |-> in.form]
               /\ waiting_lists' =
                    [data_store EXCEPT ![TheFacility][branch][i] = selected_person]
               /\ moving' = selected_person
  /\ accepted_lists' = LoadAccepted(TRUE)
  /\ person_to_move' = NoPerson
  /\ pc' = "edit_patch"
  /\ calls' = <<>>
  /\ ui' = "none"
  /\ UNCHANGED <<WaitingList, AcceptedList, today, result>>

\* another session, which loaded the same table, saves its own filling of the same
\* person's edit page, name box included, before this session's PATCH is sent
OtherSession ==
  /\ pc = "edit_patch"
  /\ calls = <<>>
  /\ \E data_store \in {read_waiting_list(WaitingList, TRUE, TheFacility, TheBranches)},
        in \in EditInputs \cup RenameInputs, ok \in BOOLEAN :
       LET waiting_list == get_waitlist(data_store, TheFacility, req.branch)
           i == FirstIndex(waiting_list, req.name)
           Original_Name == waiting_list[i].shem_male
           selected_person == edited_person(waiting_list[i], in, TheFacility)
       IN /\ WaitingList' =
               edit_person(WaitingList, Original_Name, selected_person, ok)
          /\ calls' = Append(calls, <<"edit_person_other", ok>>)
  /\ UNCHANGED <<AcceptedList, waiting_lists, accepted_lists, today, pc, req,
                 person_to_move, moving, ui, result>>

\* second step: DBloader.edit_person(Original_Name, selected_person) and the message
EditPatch ==
  /\ pc = "edit_patch"
  /\ \E ok \in BOOLEAN :
       LET returned == edit_person_returns(ok)
       IN /\ WaitingList' = edit_person(WaitingList, req.name, moving, ok)
          /\ calls' = Append(calls, <<"edit_person", ok>>)
          /\ result' = returned
          /\ ui' = IF has_error_status(returned) THEN "error_edit" ELSE "success"
  /\ pc' = "idle"
  /\ UNCHANGED <<AcceptedList, waiting_lists, accepted_lists, today, req,
                 person_to_move, moving>>

\* two sessions on the add and edit pages
NextTwo ==
  \/ AddSubmit
  \/ EditFill
  \/ OtherSession
  \/ EditPatch

SpecTwo == Init /\ [][NextTwo]_vars

\* the session on the pages that store records
NextAll ==
  \/ Next
  \/ EditSave

SpecAll == Init /\ [][NextAll]_vars

\* a script that calls the client itself, as demo_db_script does: add_person and
\* edit_person with records and names of its own
DemoPersons ==
  {form_person(n, 1, f, b, FACILITIES[1]) :
     n \in {<<"a">>, <<"b">>}, f \in {FormComplete, FormMixed},
     b \in Range(branches_no_all(FACILITIES[1]))}

ScriptAdd ==
  /\ pc = "idle"
  /\ RowCount < MaxRows
  /\ \E demo_person \in DemoPersons, ok \in BOOLEAN :
       /\ WaitingList' = add_person(WaitingList, demo_person, ok)
       /\ req' = [op |-> "add_person", name |-> demo_person.shem_male]
       /\ calls' = << <<"add_person", ok>> >>
  /\ UNCHANGED <<AcceptedList, waiting_lists, accepted_lists, today, pc,
                 person_to_move, moving, ui, result>>

ScriptEdit ==
  /\ pc = "idle"
  /\ \E person_name \in {<<"a">>, <<"b">>}, demo_person \in DemoPersons,
        ok \in BOOLEAN :
       /\ WaitingList' = edit_person(WaitingList, person_name, demo_person, ok)
       /\ result' = edit_person_returns(ok)
       /\ req' = [op |-> "edit_person", name |-> person_name]
       /\ calls' = << <<"edit_person", ok>> >>
  /\ UNCHANGED <<AcceptedList, waiting_lists, accepted_lists, today, pc,
                 person_to_move, moving, ui>>

NextScript ==
  \/ ScriptAdd
  \/ ScriptEdit

SpecScript == Init /\ [][NextScript]_vars

\* the store filled through add_to_waitlist, as the spreadsheet loader fills it, with
\* records whose date is a day, a text that names no day, or missing, and with plain
\* names; calculate_statistics and the page's aggregates applied to it
StatsPersons ==
  {[shem_male |-> <<"a">>, taarich |-> strftime(d)] : d \in {1, MaxDay}}
    \cup {[shem_male |-> <<"a">>, taarich |-> "garbage"]}

StoreSize ==
  SumSeq([i \in 1..Len(TheBranches) |-> Len(waiting_lists[TheFacility][TheBranches[i]])])

StoreAdd ==
  /\ pc = "idle"
  /\ StoreSize < MaxRows
  /\ \E branch \in Range(branches_no_all(TheFacility)), is_dict \in BOOLEAN :
       \E name \in IF is_dict THEN StatsPersons ELSE {<<"a">>} :
         LET added == add_to_waitlist(waiting_lists, name, is_dict, TheFacility, branch)
         IN /\ added.added
            /\ waiting_lists' = added.data_store
            /\ req' = [op |-> "add_to_waitlist", branch |-> branch,
                       dated |-> is_dict /\ to_datetime(name.taarich) # NaT]
  /\ UNCHANGED <<WaitingList, AcceptedList, accepted_lists, today, pc,
                 person_to_move, moving, calls, ui, result>>

StoreStatistics ==
  /\ pc = "idle"
  /\ \E branch \in Range(TheBranches) :
       LET stats == calculate_statistics(waiting_lists, TheFacility,
                                         IF branch = SEE_ALL THEN "None" ELSE branch)
       IN req' = [op |-> "calculate_statistics", branch |-> branch,
                  stats |-> stats, aggregates |-> date_aggregates(stats)]
  /\ UNCHANGED <<WaitingList, AcceptedList, waiting_lists, accepted_lists, today, pc,
                 person_to_move, moving, calls, ui, result>>

NextStats ==
  \/ StoreAdd
  \/ StoreStatistics

SpecStats == Init /\ [][NextStats]_vars

\* ----------------------------------------------------------------- claims
CountName(table, name) == Cardinality({i \in 1..Len(table) : table[i].name = name})

AllNames == NamesOf(WaitingList) \cup NamesOf(AcceptedList)

StoreNames(data_store) ==
  UNION {person_names(data_store[f][b]) : f \in DOMAIN data_store,
                                           b \in Range(TheBranches)}

LastCall == calls[Len(calls)]

\* every call of `later` in the handler's calls comes after a call of `earlier`
IssuedBefore(earlier, later) ==
  \A i \in 1..Len(calls) :
    calls[i][1] = later => \E j \in 1..(i - 1) : calls[j][1] = earlier

RealBranches == branches_no_all(TheFacility)

\* C1: while promote_to_accepted runs, and when it has ended, the append to the
\* accepted table was issued before the delete from the waiting table, and the
\* person's full name is in the waiting table or in the accepted table.
C1_PromoteNeverInNeither ==
  req.op = "promote" =>
    /\ IssuedBefore("add_person_to_accepted_list", "remove_person_from_waiting_list")
    /\ req.name \in AllNames

\* C2: when promote_to_accepted of a waiting record has completed, its full name is
\* in no branch of the waiting list and exactly one accepted record carries it.
C2_PromoteMovesExactlyOnce ==
  (req.op = "promote" /\ pc = "idle") =>
    /\ req.name \notin NamesOf(WaitingList)
    /\ CountName(AcceptedList, req.name) = 1

\* C3: after any sequence of completed operations from the empty store, no full
\* name is carried by more than one record of the two lists together.
C3_NameAtMostOnce ==
  pc = "idle" =>
    \A n \in AllNames : CountName(WaitingList, n) + CountName(AcceptedList, n) <= 1

\* C4: an add whose full name is empty or only whitespace ends in the name
\* validation error, issues no backend call and leaves the waiting table as it was;
\* add_to_waitlist refuses the same name, as a plain name and as a record, and
\* returns the store it was given.
C4_BlankNameRejected ==
  [][(req'.op = "add" /\ strip(req'.name) = <<>>) =>
       /\ ui' = "error_name"
       /\ calls' = <<>>
       /\ WaitingList' = WaitingList
       /\ \A b \in Range(RealBranches), is_dict \in BOOLEAN :
            add_to_waitlist(waiting_lists',
                            IF is_dict THEN [shem_male |-> req'.name] ELSE req'.name,
                            is_dict, TheFacility, b)
              = [added |-> FALSE, data_store |-> waiting_lists']]_vars

\* C4 witness: a whitespace-only name was refused while the waiting table held a record
C4_Witness ==
  /\ req.op = "add"
  /\ req.name = <<" ">>
  /\ ui = "error_name"
  /\ WaitingList # <<>>

\* C5: an add whose full name has leading or trailing whitespace succeeds, and the
\* record stored, and listed afterwards, carries the name with the whitespace removed.
C5_StoredNameTrimmed ==
  (req.op = "add" /\ calls = << <<"add_person", TRUE>> >>) =>
    LET listed == read_waiting_list(WaitingList, TRUE, TheFacility, TheBranches)
                    [TheFacility][req.branch]
    IN /\ ui = "success"
       /\ WaitingList[Len(WaitingList)].name = strip(req.name)
       /\ listed[Len(listed)].shem_male = strip(req.name)

\* C6: while demote_to_waiting runs, and when it has ended, the append to the waiting
\* table was issued before the delete from the accepted table, and the person's full
\* name is in one of the two tables and in one of the session's two stores.
C6_DemoteNeverInNeither ==
  req.op = "demote" =>
    /\ IssuedBefore("add_person", "remove_person_from_accepted_list")
    /\ req.name \in AllNames
    /\ req.name \in StoreNames(waiting_lists) \cup StoreNames(accepted_lists)

\* the fields a promotion is to carry over; the urgent flag counts as set when the
\* pages and the statistics count it as set
CopiedFields ==
  {"shem_male", "ktovet", "gorem_mafne", "ishur_vaada", "doch_psychiatri",
   "doch_psychosocial", "doch_refui", "tzilum_tz", "hearot"}

UrgentSet(p) == Get(p, "mikre_dachuf", "None") \in {"True", "yes"}

\* the record read_accepted_list returns last under the promotion's target branch
PromotedRecord ==
  LET list == read_accepted_list(AcceptedList, TRUE, TheFacility, TheBranches)
                [TheFacility][req.target]
  IN list[Len(list)]

PromoteAppended ==
  /\ pc = "promote_remove"
  /\ LastCall = <<"add_person_to_accepted_list", TRUE>>

\* C7: the accepted record that promote_to_accepted persisted, as read_accepted_list
\* returns it, has the full name, address, referrer, checklist values, comments and
\* urgent flag of the waiting record it was made from.
C7_PromoteCopiesFields ==
  PromoteAppended =>
    /\ \A k \in CopiedFields : PromotedRecord[k] = person_to_move[k]
    /\ UrgentSet(PromotedRecord) = UrgentSet(person_to_move)

\* positions, in declaration order, of the real branches whose waiting list in the
\* session's store holds the name
Holders(name) ==
  {i \in 1..Len(RealBranches) :
     name \in person_names(waiting_lists[TheFacility][RealBranches[i]])}

\* C8: the record promote_to_accepted appended is stored under the target branch,
\* its date-accepted is the day of the call, and its original-branch is the real
\* branch whose waiting list held the record: the selected branch, or under
\* "see all" the first branch in declaration order that holds the name.
C8_PromoteTargetDateOrigin ==
  PromoteAppended =>
    /\ AcceptedList[Len(AcceptedList)].name = req.name
    /\ AcceptedList[Len(AcceptedList)].branch = req.target
    /\ PromotedRecord.shem_male = req.name
    /\ PromotedRecord.taarich_kabala = strftime(today)
    /\ req.day = today
    /\ \E i \in Holders(req.name) :
         /\ PromotedRecord.snif_mekori = RealBranches[i]
         /\ req.branch # SEE_ALL => RealBranches[i] = req.branch
         /\ req.branch = SEE_ALL => \A j \in Holders(req.name) : i <= j

\* C8 witness: a promotion under "see all" of a name that two branches hold, to a
\* target that is not the branch the record was found in
C8_Witness ==
  /\ PromoteAppended
  /\ req.branch = SEE_ALL
  /\ Cardinality(Holders(req.name)) = 2
  /\ req.target # req.found

RowsOutside(table, branch) == SelectSeq(table, LAMBDA row : row.branch # branch)

\* C9: remove with a real branch leaves the waiting records of every other branch,
\* also one with the same full name, and the whole accepted list as they were.
C9_RemoveOnlyThatBranch ==
  [][(req'.op = "remove" /\ req'.branch # SEE_ALL) =>
       /\ RowsOutside(WaitingList', req'.branch) = RowsOutside(WaitingList, req'.branch)
       /\ AcceptedList' = AcceptedList]_vars

\* C10: remove under "see all", when the backend accepts the delete, removes exactly
\* the first record with that name in branch declaration order; later records with
\* the name remain.
C10_RemoveSeeAllFirstOnly ==
  [][(req'.op = "remove" /\ req'.branch = SEE_ALL
        /\ calls' = << <<"remove_person_from_waiting_list", TRUE>> >>) =>
       LET before == read_waiting_list(WaitingList, TRUE, TheFacility, TheBranches)
           after == read_waiting_list(WaitingList', TRUE, TheFacility, TheBranches)
       IN after = PopFound(before, TheFacility,
                           Locate(before, TheFacility, SEE_ALL, req'.name))]_vars

\* C11: when edit has changed a record's branch from b to b', the session's store
\* lists the name under b' and under no other branch, every waiting row with the
\* name has branch b', and the stored record has the values of the edit form.
C11_EditMovesBranch ==
  (req.op = "edit" /\ req.new_branch # req.branch) =>
    /\ \A b \in Range(RealBranches) :
         req.name \in person_names(waiting_lists[TheFacility][b])
           <=> b = req.new_branch
    /\ req.name \in NamesOf(WaitingList)
    /\ \A i \in 1..Len(WaitingList) :
         WaitingList[i].name = req.name =>
           /\ WaitingList[i].branch = req.new_branch
           /\ \A k \in DOMAIN req.form :
                WaitingList[i][edit_person_field_map[k]] = req.form[k]

\* C12: a call of edit_person with a name that no waiting row carries leaves the
\* table as it was and returns something other than what a successful call returns.
C12_UpdateUnknownNameFails ==
  [][(req'.op = "edit_person" /\ req'.name \notin NamesOf(WaitingList)) =>
       /\ WaitingList' = WaitingList
       /\ result' # edit_person_returns(TRUE)]_vars

\* C13: after every fetch, also one the backend answers with an error, each of the
\* session's two stores has a record sequence for every branch of the facility, and
\* it is empty for the list whose fetch failed.
C13_LoadNeverFails ==
  \A store \in {waiting_lists, accepted_lists} :
    /\ DOMAIN store = {TheFacility}
    /\ DOMAIN store[TheFacility] = Range(TheBranches)

\* C14: when the backend rejected the write of an add, an edit or a remove, the
\* handler did not show success.
C14_RejectedWriteNotSuccess ==
  (req.op \in {"add", "edit", "remove"} /\ calls # <<>> /\ ~calls[1][2]) =>
    ui # "success"

\* C15: when exactly one of the two backend calls of a promote or demote succeeded,
\* the handler ended with the partial-move outcome, not with success.
C15_PartialMoveReported ==
  (req.op \in {"promote", "demote"} /\ pc = "idle" /\ Len(calls) = 2
     /\ calls[1][2] # calls[2][2]) =>
    /\ ui # "success"
    /\ ui = "partial_move_failure"

\* the canonical fields that both mapping tables of a backend contain
CommonFields(to_map, from_map) ==
  DOMAIN to_map \cap {from_map[c] : c \in DOMAIN from_map}

\* every one of the fields that the record has comes back with the record's value
RoundTrips(r, back, fields) ==
  \A k \in fields \cap DOMAIN r : k \in DOMAIN back /\ back[k] = r[k]

DemoteAppended ==
  /\ pc = "demote_remove"
  /\ LastCall = <<"add_person", TRUE>>

AcceptedCommon == CommonFields(add_accepted_field_map, read_accepted_field_map)
WaitingCommon == CommonFields(add_person_field_map, read_waiting_field_map)

Pairs(to_map) == {<<k, to_map[k]>> : k \in DOMAIN to_map}
InversePairs(from_map) == {<<from_map[c], c>> : c \in DOMAIN from_map}

\* the mapping table a call writes with and the one its table is read with
WritesWith(call) ==
  CASE call = "add_person" -> add_person_field_map
    [] call = "edit_person" -> edit_person_field_map
    [] call = "add_person_to_accepted_list" -> add_accepted_field_map

ReadWith(call) ==
  IF call = "add_person_to_accepted_list"
  THEN read_accepted_field_map ELSE read_waiting_field_map

\* C17: whenever a handler has written to a backend, the mapping table it wrote with
\* holds the same (canonical field, column) pairs as the table that backend is read
\* with: add_person and edit_person against read_waiting_list,
\* add_person_to_accepted_list against read_accepted_list.
C17_ExactInverses ==
  \A i \in 1..Len(calls) :
    calls[i][1] \in {"add_person", "edit_person", "add_person_to_accepted_list"} =>
      Pairs(WritesWith(calls[i][1])) = InversePairs(ReadWith(calls[i][1]))

\* C18: the "see all" pseudo-branch holds no record, in the session's two stores and
\* in the two tables.
C18_SeeAllHoldsNothing ==
  /\ waiting_lists[TheFacility][SEE_ALL] = <<>>
  /\ accepted_lists[TheFacility][SEE_ALL] = <<>>
  /\ \A i \in 1..Len(WaitingList) : WaitingList[i].branch # SEE_ALL
  /\ \A i \in 1..Len(AcceptedList) : AcceptedList[i].branch # SEE_ALL

\* C18 witness: a demotion has put a record back while both tables hold records
\* that were added, loaded and promoted
C18_Witness ==
  /\ req.op = "demote"
  /\ pc = "idle"
  /\ calls = << <<"add_person", TRUE>>, <<"remove_person_from_accepted_list", FALSE>> >>
  /\ StoreNames(waiting_lists) # {}
  /\ StoreNames(accepted_lists) # {}

\* number of records the store holds in the real branches before the i-th
RECURSIVE LenBefore(_, _)
LenBefore(data_store, i) ==
  IF i <= 1 THEN 0
  ELSE LenBefore(data_store, i - 1)
         + Len(data_store[TheFacility][RealBranches[i - 1]])

\* C19: the list shown under "see all" is the waiting lists of the real branches
\* one after the other in declaration order: as long as all of them together, with
\* the j-th record of the i-th branch at place (records of earlier branches) + j.
C19_SeeAllIsConcatenation ==
  (req.op = "list" /\ req.branch = SEE_ALL) =>
    /\ Len(req.listed) = LenBefore(waiting_lists, Len(RealBranches) + 1)
    /\ \A i \in 1..Len(RealBranches) :
         \A j \in 1..Len(waiting_lists[TheFacility][RealBranches[i]]) :
           req.listed[LenBefore(waiting_lists, i) + j]
             = waiting_lists[TheFacility][RealBranches[i]][j]

\* C19 witness: a "see all" list over two real branches that both hold a record
C19_Witness ==
  /\ req.op = "list"
  /\ req.branch = SEE_ALL
  /\ \A b \in Range(RealBranches) : waiting_lists[TheFacility][b] # <<>>
  /\ waiting_lists[TheFacility][RealBranches[1]]
       # waiting_lists[TheFacility][RealBranches[2]]

\* the records of the real branches, each as <<branch, place>>
Places ==
  {<<b, j>> \in Range(RealBranches) \X (1..MaxRows) :
     j <= Len(waiting_lists[TheFacility][b])}

RecordAt(pl) == waiting_lists[TheFacility][pl[1]][pl[2]]

\* C20: the statistics under "see all" count every record of every real branch as
\* a person, those whose five checklist fields are all "yes" as complete, and those
\* whose urgent flag is set as urgent; the per-branch counts add up to the total.
C20_SeeAllStatistics ==
  (req.op = "statistics" /\ req.branch = SEE_ALL) =>
    /\ req.total_people = Cardinality(Places)
    /\ req.total_yes_all =
         Cardinality({pl \in Places : \A f \in CHECKLIST : RecordAt(pl)[f] = "yes"})
    /\ req.total_urgent_cases =
         Cardinality({pl \in Places : RecordAt(pl).mikre_dachuf = "True"})
    /\ \A b \in Range(RealBranches) :
         LET entries == {i \in 1..Len(req.stats) : req.stats[i].branch = b}
         IN IF waiting_lists[TheFacility][b] = <<>>
            THEN entries = {}
            ELSE /\ Cardinality(entries) = 1
                 /\ \A i \in entries :
                      req.stats[i].count = Len(waiting_lists[TheFacility][b])

\* C20 witness: statistics under "see all" over one complete urgent record and one
\* record with a mixed checklist
C20_Witness ==
  /\ req.op = "statistics"
  /\ req.branch = SEE_ALL
  /\ req.total_people = 2
  /\ req.total_yes_all = 1
  /\ req.total_urgent_cases = 1
  /\ \E pl \in Places : RecordAt(pl).ishur_vaada = "yes" /\ RecordAt(pl).tzilum_tz = "no"

\* count the statistics report for a branch: that of its entry, 0 without an entry
CountFor(stats, b) ==
  IF \E i \in 1..Len(stats) : stats[i].branch = b
  THEN (CHOOSE e \in Range(stats) : e.branch = b).count
  ELSE 0

AllStats(data_store) == calculate_statistics(data_store, TheFacility, "None")

\* C21: adding one record with a valid intake date to a branch raises the person
\* count the statistics report for that branch by exactly 1 and leaves the count of
\* every other branch as it was.
C21_AddRaisesCountByOne ==
  [][(req'.op = "add_to_waitlist" /\ req'.dated) =>
       \A b \in Range(RealBranches) :
         CountFor(AllStats(waiting_lists'), b) =
           CountFor(AllStats(waiting_lists), b) + (IF b = req'.branch THEN 1 ELSE 0)]_vars

\* C21 witness: a dated record was added to an empty branch while the other branch
\* held a record
C21_Witness ==
  /\ req.op = "add_to_waitlist"
  /\ req.dated
  /\ CountFor(AllStats(waiting_lists), req.branch) = 1
  /\ \E b \in Range(RealBranches) :
       b # req.branch /\ CountFor(AllStats(waiting_lists), b) = 1

\* days waited by the records of a branch whose date is there and names a day
WaitedDays(b) ==
  LET people == waiting_lists[TheFacility][b]
      valid == SelectSeq(people, LAMBDA p : has_date(p) /\ to_datetime(p.taarich) # NaT)
  IN [i \in 1..Len(valid) |-> today - to_datetime(valid[i].taarich)]

\* C22: the average wait reported for a branch is the mean of (today - intake date)
\* over all its records with a parseable intake date, wherever they stand in the
\* branch and whether or not its first record has an intake-date field.
C22_AverageOverAllValidDates ==
  req.op = "calculate_statistics" =>
    \A i \in 1..Len(req.stats) :
      LET days == WaitedDays(req.stats[i].branch)
          avg == req.stats[i].avg_wait
      IN days # <<>> => avg[1] * Len(days) = SumSeq(days) * avg[2]

\* C23: a record whose intake date names no day is counted as a person, is not in
\* the date list calculate_statistics returns, and the day and month counts are
\* computed without it and without an error.
C23_DirtyDateTolerated ==
  req.op = "calculate_statistics" =>
    /\ \A i \in 1..Len(req.stats) :
         /\ req.stats[i].count = Len(waiting_lists[TheFacility][req.stats[i].branch])
         /\ \A j \in 1..Len(req.stats[i].dates) :
              to_datetime(req.stats[i].dates[j]) # NaT
    /\ ~req.aggregates.raised

C25_NameNeverEmpty ==
  /\ \A i \in 1..Len(WaitingList) : strip(WaitingList[i].name) # <<>>
  /\ \A i \in 1..Len(AcceptedList) : strip(AcceptedList[i].name) # <<>>
  /\ \A b \in Range(TheBranches) :
       \A i \in 1..Len(waiting_lists[TheFacility][b]) :
         strip(waiting_lists[TheFacility][b][i].shem_male) # <<>>

\* the waiting record demote_to_waiting makes of the record the promotion stored,
\* sent to the branch it came from, as read_waiting_list returns it once stored
DemotedBack ==
  LET back == waiting_person(PromotedRecord, req.found, TheFacility)
      table == add_person(<<>>, back, TRUE)
  IN read_waiting_list(table, TRUE, TheFacility, TheBranches)[TheFacility][req.found][1]

\* C26: promote_to_accepted of a waiting record from branch b followed by
\* demote_to_waiting of the same name to b gives a waiting record in b with the
\* original intake date and the same name, address, referrer, checklist values,
\* comments and urgent flag as before the promote.
C26_PromoteDemoteRestores ==
  PromoteAppended =>
    /\ DemotedBack.snif = req.found
    /\ DemotedBack.taarich = person_to_move.taarich
    /\ \A k \in CopiedFields : DemotedBack[k] = person_to_move[k]
    /\ UrgentSet(DemotedBack) = UrgentSet(person_to_move)

\* C27: the process may stop in any state of promote_to_accepted or
\* demote_to_waiting, so in every state of a move, after its append, after its
\* delete and when it has ended, however the backend answered the calls, the moved
\* person's full name is in the waiting table or in the accepted table (or in both).
C27_CrashNeverInNeither ==
  (req.op \in {"promote", "demote"} /\ pc \in {"promote_remove", "demote_remove", "idle"}) =>
    CountName(WaitingList, req.name) + CountName(AcceptedList, req.name) >= 1

\* the rows of both tables together
TotalRows == Len(WaitingList) + Len(AcceptedList)

\* C29: a promote_to_accepted or demote_to_waiting whose append and delete the
\* backend both accepted leaves the total number of records as it was when the move
\* began: the table appended to has grown by one, and the delete shrinks the other
\* by exactly one, also when several of its rows carry the moved name.
C29_MoveConservesCount ==
  [][(/\ pc \in {"promote_remove", "demote_remove"}
      /\ pc' = "idle"
      /\ calls' \in
           { << <<"add_person_to_accepted_list", TRUE>>,
                <<"remove_person_from_waiting_list", TRUE>> >>,
             << <<"add_person", TRUE>>,
                <<"remove_person_from_accepted_list", TRUE>> >> }) =>
       /\ Len(WaitingList') + Len(AcceptedList') = TotalRows - 1
       /\ (req.op = "promote" =>
             Len(WaitingList') = Len(WaitingList) - 1 /\ AcceptedList' = AcceptedList)
       /\ (req.op = "demote" =>
             Len(AcceptedList') = Len(AcceptedList) - 1 /\ WaitingList' = WaitingList)]_vars

\* the rows of a table that a step changed, by position
ChangedRows(before, after) ==
  {i \in 1..Len(before) : i > Len(after) \/ after[i] # before[i]}

\* C30: an edit that the backend accepted changes at most one row of the waiting
\* table, adds and removes none, and leaves the accepted table as it was, also when
\* another waiting row, in the same branch or in another, has the same full name.
C30_EditChangesOneRecord ==
  [][(req'.op = "edit" /\ calls' = << <<"edit_person", TRUE>> >>) =>
       /\ Len(WaitingList') = Len(WaitingList)
       /\ Cardinality(ChangedRows(WaitingList, WaitingList')) <= 1
       /\ AcceptedList' = AcceptedList]_vars

\* the row a PATCH of the record gives: every mapped column has the record's value
WrittenBy(row, person) ==
  LET json == MapKeys(edit_person_field_map, edit_person_key_of, person)
  IN \A c \in DOMAIN json : row[c] = json[c]

BothSaved ==
  /\ pc = "idle"
  /\ req.op = "edit"
  /\ calls = << <<"edit_person_other", TRUE>>, <<"edit_person", TRUE>> >>

\* C28: when two sessions that loaded the same table both save an edit of the same
\* person, the other session's PATCH first and this session's last, and the backend
\* accepted both, the table has a row with the full field set this session wrote.
C28_LastWriteWins ==
  BothSaved => \E i \in 1..Len(WaitingList) : WrittenBy(WaitingList[i], moving)

====
